---- MODULE Spec2Model ----
(***************************************************************************)
(* Model of src/components/DiagramWrapper.tsx: the key functions the       *)
(* GraphLinksModel is configured with (makeUniqueKeyFunction,              *)
(* makeUniqueLinkKeyFunction), the node and link templates' deletion       *)
(* settings, and the ChangedSelection listener life cycle                  *)
(* (componentDidMount / componentWillUnmount).                             *)
(*                                                                         *)
(* A data object's key is modelled as an option: <<>> is JavaScript's      *)
(* undefined, <<k>> the number k.                                          *)
(***************************************************************************)
EXTENDS Integers, Sequences, FiniteSets, TLC

VARIABLES
    nodeDataArray,    \* props.nodeDataArray: the model's node data objects
    linkDataArray,    \* props.linkDataArray: the model's link data objects
    removed,          \* removals reported by the last transaction (onModelChange)
    op,               \* the last call, its input, its result and the model before it
    phase,            \* DiagramWrapper life cycle: constructed, mounted, unmounted
    diagramRef,       \* this.diagramRef.current
    onDiagramEvent,   \* this.props.onDiagramEvent
    listeners,        \* the diagram's ChangedSelection listeners, in order added
    raised,           \* number of ChangedSelection events raised while mounted
    delivered,        \* <<handler, event>> calls made by the diagram, in order
    expected          \* <<props.onDiagramEvent at raise time, event>>, in order

vars == <<nodeDataArray, linkDataArray, removed, op,
          phase, diagramRef, onDiagramEvent, listeners, raised, delivered, expected>>

graphVars == <<nodeDataArray, linkDataArray, removed, op>>
bridgeVars == <<phase, diagramRef, onDiagramEvent, listeners, raised, delivered, expected>>

----------------------------------------------------------------------------
(* Bounds *)

MaxKey == 2          \* loaded and requested keys range over -MaxKey..MaxKey
MaxLoad == 2         \* at most MaxLoad nodes and MaxLoad links in a loaded model
MaxNodes == 3        \* cap on Len(nodeDataArray)
MaxLinks == 2        \* cap on Len(linkDataArray)
MaxEvents == 2       \* cap on raised ChangedSelection events

KeyRange == (0 - MaxKey)..MaxKey
PositiveKeys == 1..MaxKey
NegativeKeys == (0 - MaxKey)..(0 - 1)
\* keys stay within -KeyLimit..KeyLimit (removing and re-adding links would grow them for ever)
KeyLimit == MaxKey + MaxNodes

----------------------------------------------------------------------------
(* JavaScript values *)

undefined == <<>>
Some(k) == <<k>>

\* ToBoolean of an optional number: undefined and 0 are falsy
Truthy(v) == v # undefined /\ v[1] # 0

\* a || b, with b a number
OrElse_nullish(a, b) == IF a # undefined THEN a[1] ELSE b
OrElse(a, b) == IF Truthy(a) THEN a[1] ELSE b

----------------------------------------------------------------------------
(* The model m passed to the key functions *)

Model == [nodeDataArray |-> nodeDataArray, linkDataArray |-> linkDataArray]

KeysOf(arr) == {arr[i].key[1] : i \in {j \in DOMAIN arr : arr[j].key # undefined}}
NodeKeys(m) == KeysOf(m.nodeDataArray)
LinkKeys(m) == KeysOf(m.linkDataArray)

\* m.findNodeDataForKey(k), as used in a condition: a data object or null
findNodeDataForKey(m, k) == \E i \in DOMAIN m.nodeDataArray : m.nodeDataArray[i].key = Some(k)
findLinkDataForKey(m, k) == \E i \in DOMAIN m.linkDataArray : m.linkDataArray[i].key = Some(k)

\* while (m.findNodeDataForKey(k)) k++;
nodeKeyLoop_none(m, k) == k
nodeKeyLoop_once(m, k) == IF findNodeDataForKey(m, k) THEN k + 1 ELSE k
RECURSIVE nodeKeyLoop(_, _)
nodeKeyLoop(m, k) == IF findNodeDataForKey(m, k) THEN nodeKeyLoop(m, k + 1) ELSE k

\* while (m.findLinkDataForKey(k)) k--;
RECURSIVE linkKeyLoop_up(_, _)
linkKeyLoop_up(m, k) == IF findLinkDataForKey(m, k) THEN linkKeyLoop_up(m, k + 1) ELSE k
RECURSIVE linkKeyLoop(_, _)
linkKeyLoop(m, k) == IF findLinkDataForKey(m, k) THEN linkKeyLoop(m, k - 1) ELSE k

\* makeUniqueKeyFunction: (m, data) => { let k = data.key || 1; while ...; data.key = k; return k; }
\* The result carries the data object as the function leaves it, and the returned key.
makeUniqueKeyFunction_nullish(m, data) ==
    LET k == nodeKeyLoop(m, OrElse_nullish(data.key, 1))
    IN  [data |-> [data EXCEPT !.key = Some(k)], ret |-> k]
makeUniqueKeyFunction_seedWritten(m, data) ==
    LET k0 == OrElse(data.key, 1)
        k  == nodeKeyLoop(m, k0)
    IN  [data |-> [data EXCEPT !.key = Some(k0)], ret |-> k]
makeUniqueKeyFunction(m, data) ==
    LET k == nodeKeyLoop(m, OrElse(data.key, 1))
    IN  [data |-> [data EXCEPT !.key = Some(k)], ret |-> k]

\* makeUniqueLinkKeyFunction: (m, data) => { let k = data.key || -1; while ...; data.key = k; return k; }
makeUniqueLinkKeyFunction_positiveSeed(m, data) ==
    LET k == linkKeyLoop(m, OrElse(data.key, 1))
    IN  [data |-> [data EXCEPT !.key = Some(k)], ret |-> k]
makeUniqueLinkKeyFunction(m, data) ==
    LET k == linkKeyLoop(m, OrElse(data.key, 0 - 1))
    IN  [data |-> [data EXCEPT !.key = Some(k)], ret |-> k]

----------------------------------------------------------------------------
(* Loaded models: the arrays the owner hands in through props *)

RECURSIVE AscSeq(_)
AscSeq(S) ==
    IF S = {} THEN <<>>
    ELSE LET x == CHOOSE y \in S : \A z \in S : y <= z
         IN  <<x>> \o AscSeq(S \ {x})

Min(S) == CHOOSE y \in S : \A z \in S : y <= z
Max(S) == CHOOSE y \in S : \A z \in S : y >= z

SmallSubsets(S) == {T \in SUBSET S : Cardinality(T) <= MaxLoad}

NodeLoad(K) == [i \in 1..Cardinality(K) |-> [key |-> Some(AscSeq(K)[i]), text |-> "A"]]
LinkLoad(K, from, to) ==
    [i \in 1..Cardinality(K) |-> [key |-> Some(AscSeq(K)[i]), from |-> from, to |-> to]]

\* A loaded model with node keys NK and link keys LK; loaded links join loaded nodes
LoadFrom(NK, LK) ==
    /\ nodeDataArray = NodeLoad(NK)
    /\ linkDataArray = IF NK = {} THEN <<>> ELSE LinkLoad(LK, Min(NK), Max(NK))
    /\ removed = <<>>
    /\ op = [name |-> "load"]

BridgeInit ==
    /\ phase = "constructed"
    /\ diagramRef = "null"
    /\ onDiagramEvent = "h1"
    /\ listeners = <<>>
    /\ raised = 0
    /\ delivered = <<>>
    /\ expected = <<>>

\* keys follow the comments' convention: positive for nodes, negative for links
Init ==
    /\ \E NK \in SmallSubsets(PositiveKeys), LK \in SmallSubsets(NegativeKeys) : LoadFrom(NK, LK)
    /\ BridgeInit

\* any pairwise distinct keys, one kind at a time
InitAny ==
    /\ \/ \E NK \in SmallSubsets(KeyRange) : LoadFrom(NK, {})
       \/ \E LK \in SmallSubsets(KeyRange) : LoadFrom({1, 2}, LK)
    /\ BridgeInit

----------------------------------------------------------------------------
(* The key functions applied on their own *)

AllocateNodeKey(req) ==
    LET m == Model
        data == [key |-> req, text |-> "new node"]
        r == makeUniqueKeyFunction(m, data)
    IN  /\ op' = [name |-> "allocateNodeKey", data |-> data, after |-> r.data,
                  ret |-> r.ret, before |-> m]
        /\ UNCHANGED <<nodeDataArray, linkDataArray, removed>>
        /\ UNCHANGED bridgeVars

AllocateLinkKey(req) ==
    LET m == Model
        data == [key |-> req, from |-> 1, to |-> 2]
        r == makeUniqueLinkKeyFunction(m, data)
    IN  /\ op' = [name |-> "allocateLinkKey", data |-> data, after |-> r.data,
                  ret |-> r.ret, before |-> m]
        /\ UNCHANGED <<nodeDataArray, linkDataArray, removed>>
        /\ UNCHANGED bridgeVars

----------------------------------------------------------------------------
(* Model mutations.  The GraphLinksModel built in initDiagram calls the key  *)
(* function for a data object whose key is undefined or already in use, and *)
(* then adds the object to its array; it is configured with no check of a   *)
(* link's from and to.                                                       *)

AddNode(req) ==
    /\ Len(nodeDataArray) < MaxNodes
    /\ LET m == Model
           data == [key |-> req, text |-> "new node"]
           delegated == req = undefined \/ findNodeDataForKey(m, req[1])
           r == IF delegated THEN makeUniqueKeyFunction(m, data)
                ELSE [data |-> data, ret |-> req[1]]
       IN  /\ nodeDataArray' = Append(nodeDataArray, r.data)
           /\ op' = [name |-> "addNode", data |-> data, delegated |-> delegated,
                     ret |-> r.ret, before |-> m]
    /\ removed' = <<>>
    /\ UNCHANGED linkDataArray
    /\ UNCHANGED bridgeVars

AddLink(req, from, to) ==
    /\ Len(linkDataArray) < MaxLinks
    /\ LET m == Model
           data == [key |-> req, from |-> from, to |-> to]
           delegated == req = undefined \/ findLinkDataForKey(m, req[1])
           r == IF delegated THEN makeUniqueLinkKeyFunction(m, data)
                ELSE [data |-> data, ret |-> req[1]]
       IN  /\ r.ret >= 0 - KeyLimit
           /\ linkDataArray' = Append(linkDataArray, r.data)
           /\ op' = [name |-> "addLink", data |-> data, delegated |-> delegated,
                     ret |-> r.ret, before |-> m]
    /\ removed' = <<>>
    /\ UNCHANGED nodeDataArray
    /\ UNCHANGED bridgeVars

\* nodeTemplate: {copyable: false, deletable: false}
nodeDeletable_true == TRUE
nodeDeletable == FALSE

Refers(l, k) == l.from = k \/ l.to = k

\* the links of arr that satisfy / do not satisfy Refers(_, k)
LinksOf(arr, k) == LET T(l) == Refers(l, k) IN SelectSeq(arr, T)
LinksNotOf(arr, k) == LET T(l) == ~Refers(l, k) IN SelectSeq(arr, T)
WithoutKey(arr, k) == LET T(d) == d.key # Some(k) IN SelectSeq(arr, T)

\* the user deletes the node with key k
RemoveNode(k) ==
    /\ k \in NodeKeys(Model)
    /\ IF nodeDeletable
       THEN /\ linkDataArray' = LinksNotOf(linkDataArray, k)
            /\ nodeDataArray' = WithoutKey(nodeDataArray, k)
            /\ removed' = [i \in 1..Len(LinksOf(linkDataArray, k)) |->
                              <<"link", LinksOf(linkDataArray, k)[i].key[1]>>]
                          \o << <<"node", k>> >>
       ELSE /\ UNCHANGED <<nodeDataArray, linkDataArray>>
            /\ removed' = <<>>
    /\ op' = [name |-> "removeNode", key |-> k, before |-> Model]
    /\ UNCHANGED bridgeVars

\* the user deletes the link with key k (linkTemplate leaves links deletable)
RemoveLink(k) ==
    /\ k \in LinkKeys(Model)
    /\ linkDataArray' = WithoutKey(linkDataArray, k)
    /\ removed' = << <<"link", k>> >>
    /\ op' = [name |-> "removeLink", key |-> k, before |-> Model]
    /\ UNCHANGED nodeDataArray
    /\ UNCHANGED bridgeVars

\* a new link joins the keys 1 and 2, in either direction, whether or not such nodes exist
Endpoints == {1, 2}
Requests == {undefined} \cup {Some(k) : k \in KeyRange}

\* interactive editing: a new object carries no key, a copied one a key in use
Next ==
    \/ \E req \in {undefined} \cup {Some(k) : k \in NodeKeys(Model)} : AddNode(req)
    \/ \E req \in {undefined} \cup {Some(k) : k \in LinkKeys(Model)} :
           \E from \in Endpoints : \E to \in Endpoints \ {from} : AddLink(req, from, to)
    \/ \E k \in NodeKeys(Model) : RemoveNode(k)
    \/ \E k \in LinkKeys(Model) : RemoveLink(k)

Spec == Init /\ [][Next]_vars

NextAny ==
    \/ \E req \in Requests : AllocateNodeKey(req)
    \/ \E req \in Requests : AllocateLinkKey(req)
    \/ AddNode(undefined)
    \/ AddLink(undefined, 1, 2)

SpecAny == InitAny /\ [][NextAny]_vars

----------------------------------------------------------------------------
(* The ChangedSelection listener *)

Handlers == {"h1", "h2"}
RefValues == {"null", "nodiagram", "diagram"}

\* diagram.removeDiagramListener(name, h): the first registration of h, if any, goes
RECURSIVE RemoveListener(_, _)
RemoveListener(ls, h) ==
    IF ls = <<>> THEN <<>>
    ELSE IF Head(ls) = h THEN Tail(ls)
    ELSE <<Head(ls)>> \o RemoveListener(Tail(ls), h)

\* this.diagramRef.current is non-null and its getDiagram() is a go.Diagram
HasDiagram == diagramRef = "diagram"

\* <ReactDiagram ref={this.diagramRef} .../>: the ref is attached, emptied or left
\* without a diagram
SetDiagramRef(v) ==
    /\ v # diagramRef
    /\ diagramRef' = v
    /\ UNCHANGED <<phase, onDiagramEvent, listeners, raised, delivered, expected>>
    /\ UNCHANGED graphVars

\* the owner renders the wrapper again with another onDiagramEvent
ReplaceHandler(h) ==
    /\ phase # "unmounted"
    /\ h # onDiagramEvent
    /\ onDiagramEvent' = h
    /\ UNCHANGED <<phase, diagramRef, listeners, raised, delivered, expected>>
    /\ UNCHANGED graphVars

componentDidMount ==
    /\ phase = "constructed"
    /\ phase' = "mounted"
    /\ listeners' = IF HasDiagram THEN Append(listeners, onDiagramEvent) ELSE listeners
    /\ UNCHANGED <<diagramRef, onDiagramEvent, raised, delivered, expected>>
    /\ UNCHANGED graphVars

componentWillUnmount ==
    /\ phase = "mounted"
    /\ phase' = "unmounted"
    /\ listeners' = IF HasDiagram THEN RemoveListener(listeners, onDiagramEvent) ELSE listeners
    /\ UNCHANGED <<diagramRef, onDiagramEvent, raised, delivered, expected>>
    /\ UNCHANGED graphVars

\* the diagram raises ChangedSelection number raised + 1 and calls its listeners in order
RaiseChangedSelection ==
    /\ raised < MaxEvents
    /\ raised' = raised + 1
    /\ delivered' = delivered \o [i \in 1..Len(listeners) |-> <<listeners[i], raised + 1>>]
    /\ expected' = IF phase = "mounted"
                   THEN Append(expected, <<onDiagramEvent, raised + 1>>)
                   ELSE expected
    /\ UNCHANGED <<phase, diagramRef, onDiagramEvent, listeners>>
    /\ UNCHANGED graphVars

InitBridge == LoadFrom({}, {}) /\ BridgeInit

NextBridge ==
    \/ \E h \in Handlers : ReplaceHandler(h)
    \/ \E v \in RefValues : SetDiagramRef(v)
    \/ componentDidMount
    \/ componentWillUnmount
    \/ RaiseChangedSelection

SpecBridge == InitBridge /\ [][NextBridge]_vars

----------------------------------------------------------------------------
(* Properties *)

Distinct(arr) == \A i, j \in DOMAIN arr : arr[i].key = arr[j].key => i = j
Last(arr) == arr[Len(arr)]

\* the smallest k >= s outside K, and the largest k <= s outside K
SmallestFreeFrom(K, s) ==
    CHOOSE k \in s..(s + Cardinality(K)) : k \notin K /\ \A j \in s..(k - 1) : j \in K
LargestFreeUpTo(K, s) ==
    CHOOSE k \in (s - Cardinality(K))..s : k \notin K /\ \A j \in (k + 1)..s : j \in K

\* the seed as the claim C4 has it: the requested key whenever one is supplied
ClaimedSeed(req, d) == IF req # undefined THEN req[1] ELSE d
\* the seed of the amended claim: a requested key of 0 counts as absent
AmendedSeed(req, d) == IF req # undefined /\ req[1] # 0 THEN req[1] ELSE d

NoKeyAddNode == op.name = "addNode" /\ op.data.key = undefined
NoKeyAddLink == op.name = "addLink" /\ op.data.key = undefined

\* C1: after addNode calls without a key, from a model with pairwise distinct node
\* keys, all node keys are pairwise distinct and each assigned key is > 0
C1_NodeKeysDistinctPositive ==
    /\ Distinct(nodeDataArray)
    /\ NoKeyAddNode => /\ op.ret > 0
                       /\ Last(nodeDataArray).key = Some(op.ret)
                       /\ op.ret \notin NodeKeys(op.before)

\* a second keyless addNode, on a model that already holds key 1 and another node
C1_Witness ==
    /\ NoKeyAddNode
    /\ 1 \in NodeKeys(op.before)
    /\ Len(op.before.nodeDataArray) = 2
    /\ op.ret > 1

\* C2: after addLink calls without a key, from a model with pairwise distinct link
\* keys, all link keys are pairwise distinct and each assigned key is < 0
C2_LinkKeysDistinctNegative ==
    /\ Distinct(linkDataArray)
    /\ NoKeyAddLink => /\ op.ret < 0
                       /\ Last(linkDataArray).key = Some(op.ret)
                       /\ op.ret \notin LinkKeys(op.before)

\* a keyless addLink on a model that already holds link key -1
C2_Witness ==
    /\ NoKeyAddLink
    /\ (0 - 1) \in LinkKeys(op.before)
    /\ op.ret < 0 - 1

\* C3: for every set of existing keys and every requested key (absent, free or
\* colliding) each key function returns a key outside the existing keys of its kind
C3_AllocatorNeverReturnsDuplicate ==
    /\ op.name = "allocateNodeKey" => op.ret \notin NodeKeys(op.before)
    /\ op.name = "allocateLinkKey" => op.ret \notin LinkKeys(op.before)

\* a requested key that collides, and whose successor collides too
C3_Witness ==
    /\ op.name = "allocateNodeKey"
    /\ op.data.key # undefined
    /\ op.data.key[1] \in NodeKeys(op.before)
    /\ (op.data.key[1] + 1) \in NodeKeys(op.before)

\* C4 as stated: the node key function returns the smallest free k >= s and the link
\* key function the largest free k <= s, s being the requested key whenever one is
\* supplied (0 and negatives included) and 1 (-1 for links) only when it is absent
C4_Original ==
    /\ op.name = "allocateNodeKey" =>
           op.ret = SmallestFreeFrom(NodeKeys(op.before), ClaimedSeed(op.data.key, 1))
    /\ op.name = "allocateLinkKey" =>
           op.ret = LargestFreeUpTo(LinkKeys(op.before), ClaimedSeed(op.data.key, 0 - 1))

\* C4 amended: the same, with s the requested key when one is supplied and is not 0,
\* and 1 (-1 for links) when it is absent or 0; a keyless addNode on a model holding
\* node key 1 allocates the next free key
C4_FirstFreeFromSeed ==
    /\ op.name = "allocateNodeKey" =>
           op.ret = SmallestFreeFrom(NodeKeys(op.before), AmendedSeed(op.data.key, 1))
    /\ op.name = "allocateLinkKey" =>
           op.ret = LargestFreeUpTo(LinkKeys(op.before), AmendedSeed(op.data.key, 0 - 1))
    /\ (NoKeyAddNode /\ NodeKeys(op.before) = {1}) => op.ret = 2

\* a requested key of 0 that is free, on a model that holds node key 1
C4_Witness ==
    /\ op.name = "allocateNodeKey"
    /\ op.data.key = Some(0)
    /\ 0 \notin NodeKeys(op.before)
    /\ 1 \in NodeKeys(op.before)
    /\ op.ret > 1

\* C5: when addNode or addLink goes through the key function, the added object is the
\* given data with its key set to the returned key; nothing else of it, and no other
\* object, changes
C5_AllocatedKeyWrittenBack ==
    /\ (op.name = "addNode" /\ op.delegated) =>
           /\ nodeDataArray = Append(op.before.nodeDataArray,
                                     [op.data EXCEPT !.key = Some(op.ret)])
           /\ linkDataArray = op.before.linkDataArray
    /\ (op.name = "addLink" /\ op.delegated) =>
           /\ linkDataArray = Append(op.before.linkDataArray,
                                     [op.data EXCEPT !.key = Some(op.ret)])
           /\ nodeDataArray = op.before.nodeDataArray

\* an addNode whose key collides, on a model that also holds a link
C5_Witness ==
    /\ op.name = "addNode"
    /\ op.delegated
    /\ op.data.key # undefined
    /\ op.before.linkDataArray # <<>>
    /\ Last(nodeDataArray).key # op.data.key

RemovalsOf(m, k) ==
    [i \in 1..Len(LinksOf(m.linkDataArray, k)) |-> <<"link", LinksOf(m.linkDataArray, k)[i].key[1]>>]
    \o << <<"node", k>> >>

Dangling(m, d) == d.from \notin NodeKeys(m) \/ d.to \notin NodeKeys(m)

\* C7: addLink with a from or to that names no node is rejected (model unchanged, no
\* key allocated), so every link's from and to always name a node of the node set
C7_DanglingLinkRejected ==
    /\ (op.name = "addLink" /\ Dangling(op.before, op.data)) => Model = op.before
    /\ \A i \in DOMAIN linkDataArray : ~Dangling(Model, linkDataArray[i])

\* C8: after mount followed by teardown no listener registered by the mount remains
\* on the diagram
C8_UnsubscribedAfterTeardown ==
    phase = "unmounted" => listeners = <<>>

\* C9: between mount and teardown the handler has exactly one subscription, and the
\* calls made are exactly the events raised, once each, in order, to that handler
C9_EachEventDeliveredOnce ==
    phase = "mounted" => /\ listeners = <<onDiagramEvent>>
                         /\ delivered = expected

\* C10: whatever nodes and links are created through the key functions, no node key
\* equals a link key
C10_KeySpacesDisjoint ==
    NodeKeys(Model) \cap LinkKeys(Model) = {}

\* a link created after a node was created, both through the key functions
C10_Witness ==
    /\ op.name = "addLink"
    /\ op.delegated
    /\ \E i \in DOMAIN nodeDataArray : nodeDataArray[i].text = "new node"
    /\ \E i \in DOMAIN nodeDataArray : nodeDataArray[i].text = "A"

====
